---- MODULE Spec2Model ----
(***************************************************************************)
(* Model of utils/metric.py: class ConfusionMatrix, a streaming confusion  *)
(* matrix with per-class intersection-over-union, overall accuracy and a   *)
(* bulk load from two label files.                                         *)
(*                                                                         *)
(* Two specifications are given.                                           *)
(*   Spec      streaming use: __init__, count_predicted and the metric     *)
(*             queries.                                                    *)
(*   SpecBulk  bulk use: build_conf_matrix_from_file, one step per line    *)
(*             phase of its loop, with count_predicted calls before it.    *)
(*                                                                         *)
(* __init__ as written calls np.zeros(n, n), which numpy rejects (the      *)
(* second positional argument is the dtype), so no instance leaves the     *)
(* constructor.  The methods are nevertheless modelled on instances that   *)
(* hold what lines 10-11 are written to establish (num_classes = n and an  *)
(* n x n table of zeros): Init offers both the class before construction   *)
(* and such an instance.                                                   *)
(*                                                                         *)
(* Counts are numpy float64 values in the code; they are modelled as exact *)
(* naturals (exact below 2^53), and a quotient a / b as the pair <<a, b>>. *)
(***************************************************************************)
EXTENDS Integers, Sequences, FiniteSets, TLC

VARIABLES
    pc,                 \* position: "new", "ready", "raised", "loop", "resize", "record", "return"
    num_classes,        \* self.num_classes
    confusion_matrix,   \* self.confusion_matrix, confusion_matrix[row][column]
    status,             \* what the last call returned or raised
    result,             \* the list of quotients the last metric query returned
    calls,              \* number of count_predicted calls made on the instance
    gt_file,            \* lines of ground_truth_file, parsed
    cl_file,            \* lines of classified_file, parsed
    index,              \* number of line pairs the loop has consumed
    label_gt,           \* local label_gt
    label_cl_,          \* local label_cl_
    loads,              \* number of build_conf_matrix_from_file calls made (SpecBulk follows one)
    cm_call,            \* self.confusion_matrix when the bulk load was called
    n_call,             \* self.num_classes when the bulk load was called
    cm_line,            \* self.confusion_matrix when the current line was read
    n_line              \* self.num_classes when the current line was read

vars == <<pc, num_classes, confusion_matrix, status, result, calls, gt_file,
          cl_file, index, label_gt, label_cl_, loads, cm_call, n_call,
          cm_line, n_line>>

bulk_vars == <<gt_file, cl_file, index, label_gt, label_cl_, loads, cm_call,
               n_call, cm_line, n_line>>

----------------------------------------------------------------------------
(* Bounds of the model. *)

MaxInitClasses == 3     \* largest num_classes given to an instance in Spec
MaxCalls == 5           \* count_predicted calls per instance in Spec
MaxPreCalls == 1        \* count_predicted calls before the bulk load in SpecBulk
MaxLen == 2             \* lines per label file

(* Program constant: the largest accepted predicted label (line 79). *)
LABEL_CAP == 10000

(* Labels a file line may hold: negative, 0 (unlabelled), small labels,    *)
(* and for the predictions one label above the cap.                        *)
GtLabels == {-1, 0, 2}
ClLabels == {0, 1, 2, LABEL_CAP + 1}

(* Sizes of the instance a bulk load is called on: below and at the        *)
(* largest valid label above.                                              *)
BulkClasses == {1, 2}

RECURSIVE SeqsUpTo(_, _)
SeqsUpTo(S, k) ==
    IF k = 0 THEN {<<>>}
    ELSE LET shorter == SeqsUpTo(S, k - 1)
         IN  shorter \cup {Append(s, x) : s \in {t \in shorter : Len(t) = k - 1}, x \in S}

----------------------------------------------------------------------------
(* Python and numpy helpers. *)

Range(n) == 0 .. (n - 1)

PyInt(n) == [kind |-> "int", val |-> n]
PyPair(a, b) == [kind |-> "tuple", rows |-> a, cols |-> b]
DefaultDType == [kind |-> "dtype", val |-> "float64"]

Min2(a, b) == IF a <= b THEN a ELSE b
Max2(a, b) == IF a >= b THEN a ELSE b

Unset == <<>>

(* np.zeros(shape, dtype): a dtype that is a plain integer is not a data   *)
(* type and raises TypeError; a pair shape gives a 2-d array of zeros.     *)
np_zeros(shape, dtype) ==
    IF dtype.kind # "dtype"
    THEN [raised |-> TRUE, array |-> Unset]
    ELSE IF shape.kind = "tuple"
         THEN [raised |-> FALSE,
               array |-> [row \in Range(shape.rows) |-> [column \in Range(shape.cols) |-> 0]]]
         ELSE [raised |-> FALSE, array |-> [i \in Range(shape.val) |-> 0]]

RECURSIVE SumRange(_, _)
SumRange(f, k) == IF k = 0 THEN 0 ELSE SumRange(f, k - 1) + f[k - 1]

(* a[i] for a numpy axis of length n: negative i counts from the end.      *)
PyIndexOK(i, n) == (-n <= i) /\ (i < n)
PyIndex(i, n) == IF i >= 0 THEN i ELSE n + i

----------------------------------------------------------------------------
(* Initial states. *)

NoLoad ==
    /\ gt_file = <<>>
    /\ cl_file = <<>>
    /\ index = 0
    /\ label_gt = 0
    /\ label_cl_ = 0
    /\ loads = 0
    /\ cm_call = Unset
    /\ n_call = 0
    /\ cm_line = Unset
    /\ n_line = 0

InitNew ==
    /\ pc = "new"
    /\ num_classes = 0
    /\ confusion_matrix = Unset
    /\ status = "None"
    /\ result = <<>>
    /\ calls = 0
    /\ NoLoad

InitInstance(sizes) ==
    /\ pc = "ready"
    /\ num_classes \in sizes
    /\ confusion_matrix = np_zeros(PyPair(num_classes, num_classes), DefaultDType).array
    /\ status = "None"
    /\ result = <<>>
    /\ calls = 0
    /\ NoLoad

Init == InitNew \/ InitInstance(1 .. MaxInitClasses)

InitBulk == InitInstance(BulkClasses)

----------------------------------------------------------------------------
(* __init__(self, num_classes), lines 9-11. *)

ConfusionMatrix_init(n) ==
    /\ pc = "new"
    /\ LET z == np_zeros(PyInt(n), PyInt(n))
       IN  /\ num_classes' = n
           /\ confusion_matrix' = z.array
           /\ pc' = IF z.raised THEN "raised" ELSE "ready"
           /\ status' = IF z.raised THEN "TypeError" ELSE "None"
    /\ UNCHANGED <<result, calls>>
    /\ UNCHANGED bulk_vars

(* Mutant: the two indices swapped. *)
count_predicted_swapped(ground_truth, predicted) ==
    /\ pc = "ready"
    /\ ground_truth \in Range(num_classes)
    /\ predicted \in Range(num_classes)
    /\ confusion_matrix' =
          [confusion_matrix EXCEPT ![predicted][ground_truth] = @ + 1]
    /\ calls' = calls + 1
    /\ status' = "None"
    /\ result' = <<>>
    /\ UNCHANGED <<pc, num_classes>>
    /\ UNCHANGED bulk_vars

(* count_predicted(self, ground_truth, predicted), lines 13-14. *)
count_predicted(ground_truth, predicted) ==
    /\ pc = "ready"
    /\ ground_truth \in Range(num_classes)
    /\ predicted \in Range(num_classes)
    /\ confusion_matrix' =
          [confusion_matrix EXCEPT ![ground_truth][predicted] = @ + 1]
    /\ calls' = calls + 1
    /\ status' = "None"
    /\ result' = <<>>
    /\ UNCHANGED <<pc, num_classes>>
    /\ UNCHANGED bulk_vars

(* get_intersection_union_per_class(self), lines 27-54, as a function of   *)
(* the table.                                                              *)
matrix_diagonal(cm, n) == [i \in Range(n) |-> cm[i][i]]

(* Mutant: the test row != column left out. *)
errors_summed_by_row_all(cm, n) ==
    [row \in Range(n) |-> SumRange([column \in Range(n) |-> cm[row][column]], n)]

errors_summed_by_row(cm, n) ==
    [row \in Range(n) |->
        SumRange([column \in Range(n) |-> IF row # column THEN cm[row][column] ELSE 0], n)]

errors_summed_by_column(cm, n) ==
    [column \in Range(n) |->
        SumRange([row \in Range(n) |-> IF row # column THEN cm[row][column] ELSE 0], n)]

divisor(cm, n) ==
    [i \in Range(n) |->
        IF matrix_diagonal(cm, n)[i] = 0
        THEN 1
        ELSE matrix_diagonal(cm, n)[i] + errors_summed_by_row(cm, n)[i]
                 + errors_summed_by_column(cm, n)[i]]

intersection_union_per_class(cm, n) ==
    [i \in 1 .. n |-> <<matrix_diagonal(cm, n)[i - 1], divisor(cm, n)[i - 1]>>]

get_intersection_union_per_class ==
    /\ pc = "ready"
    /\ result' = intersection_union_per_class(confusion_matrix, num_classes)
    /\ status' = "iou"
    /\ UNCHANGED <<pc, num_classes, confusion_matrix, calls>>
    /\ UNCHANGED bulk_vars

(* Mutant: no guard for an empty table. *)
overall_accuracy_unguarded(cm, n) ==
    LET all_cells == SumRange([row \in Range(n) |-> SumRange(cm[row], n)], n)
        diagonal == SumRange([row \in Range(n) |-> cm[row][row]], n)
    IN  <<diagonal, all_cells>>

(* get_overall_accuracy(self), lines 56-67. *)
overall_accuracy(cm, n) ==
    LET all_cells == SumRange([row \in Range(n) |-> SumRange(cm[row], n)], n)
        diagonal == SumRange([row \in Range(n) |-> cm[row][row]], n)
        all_values == IF all_cells = 0 THEN 1 ELSE all_cells
    IN  <<diagonal, all_values>>

get_overall_accuracy ==
    /\ pc = "ready"
    /\ result' = <<overall_accuracy(confusion_matrix, num_classes)>>
    /\ status' = "accuracy"
    /\ UNCHANGED <<pc, num_classes, confusion_matrix, calls>>
    /\ UNCHANGED bulk_vars

----------------------------------------------------------------------------
(* build_conf_matrix_from_file(self, ground_truth_file, classified_file),  *)
(* lines 73-97.                                                            *)

(* The call: both files are opened (line 75). *)
build_conf_matrix_from_file(gt_lines, cl_lines) ==
    /\ pc = "ready"
    /\ loads = 0
    /\ pc' = "loop"
    /\ gt_file' = gt_lines
    /\ cl_file' = cl_lines
    /\ index' = 0
    /\ loads' = loads + 1
    /\ cm_call' = confusion_matrix
    /\ n_call' = num_classes
    /\ cm_line' = confusion_matrix
    /\ n_line' = num_classes
    /\ status' = "running"
    /\ result' = <<>>
    /\ UNCHANGED <<num_classes, confusion_matrix, calls, label_gt, label_cl_>>

(* Lines 76-83: zip yields the next pair of lines, or the loop ends and    *)
(* the function falls off its end (returning None); the predicted label is *)
(* clamped into [1, LABEL_CAP] and a label the clamp changes returns -1.   *)
clamp(label) == Max2(Min2(label, LABEL_CAP), 1)

ReadLine ==
    /\ pc = "loop"
    /\ IF index >= Min2(Len(gt_file), Len(cl_file))
       THEN /\ pc' = "return"
            /\ status' = "None"
            /\ UNCHANGED <<label_gt, label_cl_, cm_line, n_line>>
       ELSE /\ label_gt' = gt_file[index + 1]
            /\ label_cl_' = cl_file[index + 1]
            /\ cm_line' = confusion_matrix
            /\ n_line' = num_classes
            /\ IF cl_file[index + 1] # clamp(cl_file[index + 1])
               THEN pc' = "return" /\ status' = "-1"
               ELSE pc' = "resize" /\ UNCHANGED status
    /\ UNCHANGED <<num_classes, confusion_matrix, result, calls, gt_file,
                   cl_file, index, loads, cm_call, n_call>>

(* Mutant: the old entries are not copied into the larger matrix. *)
resized_not_copied(cm, n, max_label) ==
    np_zeros(PyPair(max_label, max_label), DefaultDType).array

(* Lines 84-92: resize to a larger confusion matrix. *)
resized(cm, n, max_label) ==
    LET b == np_zeros(PyPair(max_label, max_label), DefaultDType).array
    IN  [row \in Range(max_label) |->
            [column \in Range(max_label) |->
                IF row \in Range(n) /\ column \in Range(n)
                THEN cm[row][column]
                ELSE b[row][column]]]

Resize ==
    /\ pc = "resize"
    /\ LET label_cl == clamp(label_cl_)
           max_label == Max2(label_gt, label_cl)
       IN  IF max_label > num_classes
           THEN /\ confusion_matrix' = resized(confusion_matrix, num_classes, max_label)
                /\ num_classes' = max_label
           ELSE UNCHANGED <<num_classes, confusion_matrix>>
    /\ pc' = "record"
    /\ UNCHANGED <<status, result, calls>>
    /\ UNCHANGED bulk_vars

(* Mutant: the cell is incremented before the test for label 0. *)
Record_count_before_skip ==
    /\ pc = "record"
    /\ LET label_cl == clamp(label_cl_)
           row == label_gt - 1
           column == label_cl - 1
       IN  IF PyIndexOK(row, num_classes) /\ PyIndexOK(column, num_classes)
           THEN /\ confusion_matrix' =
                       [confusion_matrix EXCEPT
                           ![PyIndex(row, num_classes)][PyIndex(column, num_classes)] = @ + 1]
                /\ IF label_gt = 0
                   THEN pc' = "loop" /\ index' = index + 1 /\ UNCHANGED status
                   ELSE pc' = "return" /\ status' = "0" /\ UNCHANGED index
           ELSE /\ pc' = "return"
                /\ status' = "IndexError"
                /\ UNCHANGED <<confusion_matrix, index>>
    /\ UNCHANGED <<num_classes, result, calls, gt_file, cl_file, label_gt,
                   label_cl_, loads, cm_call, n_call, cm_line, n_line>>

(* Lines 94-97: a ground-truth label 0 continues with the next line;       *)
(* otherwise one cell is incremented and the function returns 0.  A        *)
(* negative row index is taken from the end of the axis, or raises         *)
(* IndexError when it is below -num_classes.                               *)
Record ==
    /\ pc = "record"
    /\ LET label_cl == clamp(label_cl_)
           row == label_gt - 1
           column == label_cl - 1
       IN  IF label_gt = 0
           THEN /\ pc' = "loop"
                /\ index' = index + 1
                /\ UNCHANGED <<confusion_matrix, status>>
           ELSE IF PyIndexOK(row, num_classes) /\ PyIndexOK(column, num_classes)
                THEN /\ confusion_matrix' =
                            [confusion_matrix EXCEPT
                                ![PyIndex(row, num_classes)][PyIndex(column, num_classes)] = @ + 1]
                     /\ pc' = "return"
                     /\ status' = "0"
                     /\ UNCHANGED index
                ELSE /\ pc' = "return"
                     /\ status' = "IndexError"
                     /\ UNCHANGED <<confusion_matrix, index>>
    /\ UNCHANGED <<num_classes, result, calls, gt_file, cl_file, label_gt,
                   label_cl_, loads, cm_call, n_call, cm_line, n_line>>

(* Leaving the with block of line 75: the files are closed and the locals  *)
(* are gone; the caller holds the returned value.                          *)
Exit ==
    /\ pc = "return"
    /\ pc' = "ready"
    /\ gt_file' = <<>>
    /\ cl_file' = <<>>
    /\ index' = 0
    /\ label_gt' = 0
    /\ label_cl_' = 0
    /\ cm_call' = Unset
    /\ n_call' = 0
    /\ cm_line' = Unset
    /\ n_line' = 0
    /\ UNCHANGED <<num_classes, confusion_matrix, status, result, calls, loads>>

----------------------------------------------------------------------------
(* Specifications. *)

Construct == \E n \in 1 .. MaxInitClasses : ConfusionMatrix_init(n)

CountPredicted ==
    /\ calls < MaxCalls
    /\ \E g \in Range(num_classes), p \in Range(num_classes) : count_predicted(g, p)

Next ==
    \/ Construct
    \/ CountPredicted
    \/ get_intersection_union_per_class
    \/ get_overall_accuracy

Spec == Init /\ [][Next]_vars

PreCount ==
    /\ loads = 0
    /\ calls < MaxPreCalls
    /\ \E g \in Range(num_classes), p \in Range(num_classes) : count_predicted(g, p)

LoadStart ==
    \E gt_lines \in SeqsUpTo(GtLabels, MaxLen), cl_lines \in SeqsUpTo(ClLabels, MaxLen) :
        build_conf_matrix_from_file(gt_lines, cl_lines)

NextBulk ==
    \/ PreCount
    \/ LoadStart
    \/ ReadLine
    \/ Resize
    \/ Record
    \/ Exit

SpecBulk == InitBulk /\ [][NextBulk]_vars

----------------------------------------------------------------------------
(* Reference definitions used by the properties. *)

RECURSIVE SetSum(_, _)
(* Sum of f over the finite set S. *)
SetSum(f, S) ==
    IF S = {} THEN 0
    ELSE LET x == CHOOSE y \in S : TRUE IN f[x] + SetSum(f, S \ {x})

Cells(n) == Range(n) \X Range(n)
CellTotal(cm, n) == SetSum([rc \in Cells(n) |-> cm[rc[1]][rc[2]]], Cells(n))
RowTotal(cm, n, r) == SetSum([c \in Range(n) |-> cm[r][c]], Range(n))
ColTotal(cm, n, c) == SetSum([r \in Range(n) |-> cm[r][c]], Range(n))
DiagTotal(cm, n) == SetSum([i \in Range(n) |-> cm[i][i]], Range(n))

IsTable(cm, n) ==
    /\ DOMAIN cm = Range(n)
    /\ \A r \in Range(n) : DOMAIN cm[r] = Range(n)

(* The quotients a[1] / a[2] and b[1] / b[2] are defined and equal. *)
QEq(a, b) == a[2] # 0 /\ b[2] # 0 /\ a[1] * b[2] = b[1] * a[2]

(* Size 3 with records (0,0), (1,1), (2,2), (0,1), (2,0). *)
ExampleTable == <<  <<1, 1, 0>>, <<0, 1, 0>>, <<1, 0, 1>>  >>
SameTable(cm, n, rows) ==
    /\ n = Len(rows)
    /\ \A r \in Range(n), c \in Range(n) : cm[r][c] = rows[r + 1][c + 1]

----------------------------------------------------------------------------
(* C3: on an instance that starts with an all-zero table, the sum of all   *)
(* cells equals the number of count_predicted calls, and each call         *)
(* count_predicted(g, p) raises cell (g, p) by one and leaves every other  *)
(* cell as it was.                                                         *)
C3_OneCellPerCall ==
    \A g \in Range(num_classes), p \in Range(num_classes) :
        count_predicted(g, p) =>
            /\ num_classes' = num_classes
            /\ IsTable(confusion_matrix', num_classes)
            /\ \A r \in Range(num_classes), c \in Range(num_classes) :
                  confusion_matrix'[r][c] =
                      confusion_matrix[r][c] + (IF r = g /\ c = p THEN 1 ELSE 0)

C3_SumEqualsCalls ==
    /\ [](pc = "ready" => CellTotal(confusion_matrix, num_classes) = calls)
    /\ [][C3_OneCellPerCall]_vars

C3_Witness ==
    /\ pc = "ready"
    /\ calls = 3
    /\ num_classes = 2
    /\ confusion_matrix[0][1] = 2
    /\ confusion_matrix[1][0] = 1

(* C4: get_intersection_union_per_class returns num_classes quotients;     *)
(* entry c is diag / (diag + rowErr + colErr) when diag = table[c][c] > 0  *)
(* and 0 when diag = 0, rowErr and colErr being the off-diagonal sums of   *)
(* row c and column c; the example table gives 1/3, 1/2, 1/2.              *)
C4_PerClassIoU ==
    status = "iou" =>
        /\ Len(result) = num_classes
        /\ \A c \in Range(num_classes) :
              LET diag == confusion_matrix[c][c]
                  rowErr == RowTotal(confusion_matrix, num_classes, c) - diag
                  colErr == ColTotal(confusion_matrix, num_classes, c) - diag
              IN  IF diag > 0
                  THEN QEq(result[c + 1], <<diag, diag + rowErr + colErr>>)
                  ELSE QEq(result[c + 1], <<0, 1>>)
        /\ SameTable(confusion_matrix, num_classes, ExampleTable) =>
              /\ QEq(result[1], <<1, 3>>)
              /\ QEq(result[2], <<1, 2>>)
              /\ QEq(result[3], <<1, 2>>)

(* Class 0 has a zero diagonal with errors, class 1 a positive diagonal    *)
(* with row and column errors, class 2 is never referenced.                *)
C4_Witness ==
    /\ status = "iou"
    /\ SameTable(confusion_matrix, num_classes,
                 <<  <<0, 1, 0>>, <<1, 1, 0>>, <<0, 0, 0>>  >>)

(* C5: get_overall_accuracy returns (sum of the diagonal) / (sum of all    *)
(* cells) when that total is positive and 0 when nothing was recorded;     *)
(* the example table gives 3/5.                                            *)
C5_OverallAccuracy ==
    status = "accuracy" =>
        /\ Len(result) = 1
        /\ LET total == CellTotal(confusion_matrix, num_classes)
               diag == DiagTotal(confusion_matrix, num_classes)
           IN  IF total > 0
               THEN QEq(result[1], <<diag, total>>)
               ELSE QEq(result[1], <<0, 1>>)
        /\ SameTable(confusion_matrix, num_classes, ExampleTable) =>
              QEq(result[1], <<3, 5>>)

C5_Witness ==
    /\ status = "accuracy"
    /\ SameTable(confusion_matrix, num_classes, ExampleTable)

(* C5 also at the empty table. *)
C5_EmptyReached == status = "accuracy" /\ calls = 0

(* C9: ConfusionMatrix(n) with n >= 1 succeeds and yields an n x n table   *)
(* of zeros.                                                               *)
C9_ConstructionSucceeds ==
    (pc # "new" /\ calls = 0) =>
        /\ pc = "ready"
        /\ status # "TypeError"
        /\ num_classes >= 1
        /\ IsTable(confusion_matrix, num_classes)
        /\ \A r \in Range(num_classes), c \in Range(num_classes) :
              confusion_matrix[r][c] = 0

----------------------------------------------------------------------------
(* Properties of build_conf_matrix_from_file, checked under SpecBulk. *)

Paired == Min2(Len(gt_file), Len(cl_file))
ValidPredicted(label) == 1 <= label /\ label <= LABEL_CAP
AllPredictedValid == \A i \in 1 .. Paired : ValidPredicted(cl_file[i])
SomePredictedInvalid == \E i \in 1 .. Paired : ~ValidPredicted(cl_file[i])
NoNegativeGroundTruth == \A i \in 1 .. Paired : gt_file[i] >= 0

RECURSIVE SetMax(_, _)
(* The largest of floor and the members of S. *)
SetMax(S, floor) ==
    IF S = {} THEN floor
    ELSE LET x == CHOOSE y \in S : TRUE IN Max2(x, SetMax(S \ {x}, floor))

(* cm is the n x n table that extends old (n0 x n0) with zero cells. *)
Extends(cm, n, old, n0) ==
    /\ IsTable(cm, n)
    /\ \A r \in Range(n), c \in Range(n) :
          cm[r][c] = IF r < n0 /\ c < n0 THEN old[r][c] ELSE 0

(* C1: the bulk load processes every paired line: when all predicted       *)
(* labels are in [1, LABEL_CAP] (and no ground-truth label is negative),   *)
(* the table on return is the grown table of the call plus one increment   *)
(* at (groundTruth - 1, predicted - 1) per paired line whose ground truth  *)
(* is not 0.                                                               *)
C1_EveryPairedLineCounted ==
    (pc = "return" /\ AllPredictedValid /\ NoNegativeGroundTruth) =>
        LET size == SetMax({gt_file[i] : i \in 1 .. Paired}
                             \cup {cl_file[i] : i \in 1 .. Paired}, n_call)
        IN  /\ num_classes = size
            /\ IsTable(confusion_matrix, size)
            /\ \A r \in Range(size), c \in Range(size) :
                  confusion_matrix[r][c] =
                      (IF r < n_call /\ c < n_call THEN cm_call[r][c] ELSE 0)
                      + Cardinality({i \in 1 .. Paired :
                            gt_file[i] # 0 /\ gt_file[i] - 1 = r /\ cl_file[i] - 1 = c})

(* C2: when some paired line carries a predicted label outside             *)
(* [1, LABEL_CAP], at any position, the bulk load returns -1 and           *)
(* num_classes is what it was before the call.                             *)
C2_InvalidLabelAborts ==
    (pc = "return" /\ SomePredictedInvalid /\ NoNegativeGroundTruth) =>
        /\ status = "-1"
        /\ num_classes = n_call

(* C8: the bulk load returns 0 whenever no paired line fails the           *)
(* validation (empty files and files of ground-truth 0 included), and -1   *)
(* only when a line fails it.                                              *)
C8_ReturnStatus ==
    pc = "return" =>
        /\ (AllPredictedValid /\ NoNegativeGroundTruth) => status = "0"
        /\ status = "-1" => SomePredictedInvalid

(* C10: the table is square with side num_classes, its entries are not     *)
(* negative, and every increment of the bulk load is at a row index        *)
(* groundTruth - 1 and a column index predicted - 1 within                 *)
(* [0, num_classes).                                                       *)
C10_IndicesInRange ==
    /\ IsTable(confusion_matrix, num_classes)
    /\ \A r \in Range(num_classes), c \in Range(num_classes) : confusion_matrix[r][c] >= 0
    /\ (pc = "return" /\ status = "0") =>
          /\ label_gt - 1 \in Range(num_classes)
          /\ clamp(label_cl_) - 1 \in Range(num_classes)

(* C6: when a line's largest label exceeds num_classes, the resize gives   *)
(* a max_label x max_label table in which the old cells keep their counts  *)
(* and the new cells are 0, and num_classes becomes max_label; num_classes *)
(* never decreases.                                                        *)
C6_Resized ==
    (pc = "record" /\ Max2(label_gt, clamp(label_cl_)) > n_line) =>
        /\ num_classes = Max2(label_gt, clamp(label_cl_))
        /\ Extends(confusion_matrix, num_classes, cm_line, n_line)

C6_GrowthPreservesCounts ==
    /\ []C6_Resized
    /\ [][num_classes' >= num_classes]_vars

(* A 1 x 1 table holding one count has been resized to 2 x 2. *)
C6_Witness ==
    /\ pc = "record"
    /\ n_line = 1
    /\ cm_line[0][0] = 1
    /\ num_classes = 2
    /\ confusion_matrix[0][0] = 1

(* C7 as stated: after a line whose ground-truth label is 0, the table and *)
(* num_classes are what they were before the line.                         *)
AfterSkippedLine == pc = "loop" /\ index >= 1 /\ gt_file[index] = 0

C7_PureSkip ==
    AfterSkippedLine =>
        /\ num_classes = n_line
        /\ IsTable(confusion_matrix, n_line)
        /\ \A r \in Range(n_line), c \in Range(n_line) :
              confusion_matrix[r][c] = cm_line[r][c]

(* C7 amended: a line whose ground-truth label is 0 changes no count: it   *)
(* resizes the table to the predicted label when that exceeds num_classes  *)
(* (old cells kept, new cells 0) and otherwise leaves table and            *)
(* num_classes as they were.                                               *)
C7_SkipChangesNoCount ==
    AfterSkippedLine =>
        /\ num_classes = Max2(n_line, cl_file[index])
        /\ Extends(confusion_matrix, num_classes, cm_line, n_line)
        /\ CellTotal(confusion_matrix, num_classes) = CellTotal(cm_line, n_line)

(* A line (0, 2) has been skipped on a 1 x 1 table holding one count. *)
C7_Witness ==
    /\ AfterSkippedLine
    /\ cl_file[index] > n_line
    /\ cm_line[0][0] = 1
    /\ num_classes = 2

====
